---- MODULE Spec2Model ----
(***************************************************************************)
(* Model of sharepoint_etl.py: the incremental synchronisation of Excel    *)
(* workbooks of a SharePoint document library into one master workbook,    *)
(* with the processed-files ledger (processed_files.json) as durable       *)
(* state.                                                                  *)
(*                                                                         *)
(* Text that the program inspects (file names, folder names, sheet names,  *)
(* cell values) is a sequence of one-character strings, so that lower(),   *)
(* endswith(), startswith(), substring search and strip() are computed.    *)
(* Column names are only compared for equality and are plain strings.      *)
(***************************************************************************)
EXTENDS Integers, Sequences, FiniteSets, TLC

(***************************************************************************)
(* Bounds of the model.                                                    *)
(***************************************************************************)
\* number of times run_etl is started
MaxRuns == 2
\* number of events that come from outside the program: a change of a remote
\* file between runs, a run interrupted (the process killed) before it ends,
\* a call that fails (a remote call, the decoding of a workbook, the parse of
\* a sheet, a read or a write of the master file)
MaxEvents == 2
\* number of data rows of a sheet given to the per-file pipeline
MaxRows == 2

(***************************************************************************)
(* Text helpers: str.lower, str.startswith, str.endswith, `in`, str.strip. *)
(***************************************************************************)
LowerChar(c) ==
    CASE c = "A" -> "a" [] c = "B" -> "b" [] c = "C" -> "c" [] c = "D" -> "d"
      [] c = "E" -> "e" [] c = "F" -> "f" [] c = "G" -> "g" [] c = "H" -> "h"
      [] c = "I" -> "i" [] c = "J" -> "j" [] c = "K" -> "k" [] c = "L" -> "l"
      [] c = "M" -> "m" [] c = "N" -> "n" [] c = "O" -> "o" [] c = "P" -> "p"
      [] c = "Q" -> "q" [] c = "R" -> "r" [] c = "S" -> "s" [] c = "T" -> "t"
      [] c = "U" -> "u" [] c = "V" -> "v" [] c = "W" -> "w" [] c = "X" -> "x"
      [] c = "Y" -> "y" [] c = "Z" -> "z" [] OTHER -> c

Lower(s) == [i \in 1..Len(s) |-> LowerChar(s[i])]

StartsWith(s, p) ==
    /\ Len(p) <= Len(s)
    /\ SubSeq(s, 1, Len(p)) = p

EndsWith(s, p) ==
    /\ Len(p) <= Len(s)
    /\ SubSeq(s, Len(s) - Len(p) + 1, Len(s)) = p

\* sub in s
Contains(s, sub) ==
    \E i \in 1..(Len(s) - Len(sub) + 1) : SubSeq(s, i, i + Len(sub) - 1) = sub

IsSpace(c) == c \in {" ", "\t", "\n"}

\* s.strip()
Strip(s) ==
    LET keep == {i \in 1..Len(s) : ~IsSpace(s[i])}
    IN  IF keep = {} THEN <<>>
        ELSE LET lo == CHOOSE i \in keep : \A j \in keep : i <= j
                 hi == CHOOSE i \in keep : \A j \in keep : j <= i
             IN  SubSeq(s, lo, hi)

\* the elements of a sequence
Range(s) == {s[i] : i \in 1..Len(s)}

\* SelectRows giving the kept elements last first
RECURSIVE SelectRowsReversed(_, _)
SelectRowsReversed(s, keepIdx) ==
    IF s = <<>> THEN <<>>
    ELSE LET n == Len(s)
             front == SelectRowsReversed(SubSeq(s, 1, n - 1), keepIdx)
         IN  IF n \in keepIdx THEN <<s[n]>> \o front ELSE front

\* the subsequence of s of the elements whose index is in keepIdx
RECURSIVE SelectRows(_, _)
SelectRows(s, keepIdx) ==
    IF s = <<>> THEN <<>>
    ELSE LET n == Len(s)
             front == SelectRows(SubSeq(s, 1, n - 1), keepIdx)
         IN  IF n \in keepIdx THEN Append(front, s[n]) ELSE front

(***************************************************************************)
(* Cell values and data frames.  A cell is null (NaN/None), a string or a  *)
(* number; s is the text str() gives for it.  A frame has its columns in   *)
(* order, the dtype of each column ("object" or "number") and its rows,    *)
(* each a function from the frame's columns to cells.                      *)
(***************************************************************************)
Null == [k |-> "null", s |-> <<>>]

Str(s) == [k |-> "str", s |-> s]

Num(s) == [k |-> "num", s |-> s]

\* str(v) as astype(str) gives it: NaN becomes "nan"
AsStr(v) == IF v.k = "null" THEN <<"n", "a", "n">> ELSE v.s

\* pd.DataFrame()
EmptyFrame == [cols |-> <<>>, dtype |-> [c \in {} |-> "object"], rows |-> <<>>]

\* DataFrame.empty: no rows or no columns
IsEmpty(df) == df.rows = <<>> \/ df.cols = <<>>

\* the dtype pandas infers for a parsed column: a column with a string in it,
\* or with no row at all, is "object"; numbers and NaN alone make "number"
InferDtype(cells) ==
    IF cells = <<>> \/ \E i \in 1..Len(cells) : cells[i].k = "str"
    THEN "object" ELSE "number"

\* pd.concat([a, b], ignore_index=True): the union of the columns in order of
\* appearance, a's rows then b's rows, missing cells filled with NaN
Concat(a, b) ==
    IF a.cols = <<>> THEN b
    ELSE IF b.cols = <<>> THEN a
    ELSE LET extra == SelectSeq(b.cols, LAMBDA c : c \notin Range(a.cols))
             cols  == a.cols \o extra
             cset  == Range(cols)
             widen(df) == [i \in 1..Len(df.rows) |->
                            [c \in cset |-> IF c \in DOMAIN df.rows[i]
                                            THEN df.rows[i][c] ELSE Null]]
         IN  [cols  |-> cols,
              dtype |-> [c \in cset |->
                           IF c \in Range(a.cols) /\ c \in Range(b.cols)
                           THEN IF a.dtype[c] = "object" \/ b.dtype[c] = "object"
                                THEN "object" ELSE "number"
                           ELSE IF c \in Range(a.cols) THEN a.dtype[c]
                           ELSE b.dtype[c]],
              rows  |-> widen(a) \o widen(b)]

(***************************************************************************)
(* Extraction: process_excel_file.                                         *)
(* A workbook is its sheets in order; a sheet has a name, its header row   *)
(* (cols) and its data rows, each a tuple aligned with cols.               *)
(***************************************************************************)
BatchSheet == <<"B", "a", "t", "c", "h", " ", "S", "h", "e", "e", "t">>

ProductInfo == <<"P", "r", "o", "d", "u", "c", "t", " ", "I", "n", "f", "o">>

sheets_to_process == <<BatchSheet, ProductInfo>>

SourceSheet == "_SourceSheet"

\* xls.parse(name) followed by df['_SourceSheet'] = name
ParseSheet(sheet) ==
    LET n     == Len(sheet.cols)
        idx(c) == CHOOSE j \in 1..n : sheet.cols[j] = c
        cols  == IF SourceSheet \in Range(sheet.cols) THEN sheet.cols
                 ELSE Append(sheet.cols, SourceSheet)
        cell(i, c) == IF c = SourceSheet THEN Str(sheet.name)
                      ELSE sheet.rows[i][idx(c)]
    IN  [cols  |-> cols,
         dtype |-> [c \in Range(cols) |->
                      IF c = SourceSheet THEN "object"
                      ELSE InferDtype([i \in 1..Len(sheet.rows) |->
                                         sheet.rows[i][idx(c)]])],
         rows  |-> [i \in 1..Len(sheet.rows) |->
                      [c \in Range(cols) |-> cell(i, c)]]]

\* MatchSheet taking the last sheet that matches
MatchSheetLast(sheets, target) ==
    LET hits == {i \in 1..Len(sheets) :
                   Contains(Lower(sheets[i].name), Lower(target))}
    IN  IF hits = {} THEN 0 ELSE CHOOSE i \in hits : \A j \in hits : j <= i

\* the first available sheet whose lowered name contains the lowered target;
\* 0 when there is none (actual_sheet_name = None)
MatchSheet(sheets, target) ==
    LET hits == {i \in 1..Len(sheets) :
                   Contains(Lower(sheets[i].name), Lower(target))}
    IN  IF hits = {} THEN 0 ELSE CHOOSE i \in hits : \A j \in hits : i <= j

\* the loop over sheets_to_process from target k on; parseFails is the set of
\* sheet names whose xls.parse raises
RECURSIVE ExtractFrom(_, _, _, _)
ExtractFrom(sheets, parseFails, k, all_sheet_data) ==
    IF k > Len(sheets_to_process) THEN all_sheet_data
    ELSE LET m == MatchSheet(sheets, sheets_to_process[k])
             next == IF m = 0 \/ sheets[m].name \in parseFails
                     THEN all_sheet_data
                     ELSE Concat(all_sheet_data, ParseSheet(sheets[m]))
         IN  ExtractFrom(sheets, parseFails, k + 1, next)

\* process_excel_file(file_content); decodeFails: pd.ExcelFile raises
process_excel_file(wb, decodeFails, parseFails) ==
    IF decodeFails THEN EmptyFrame
    ELSE ExtractFrom(wb, parseFails, 1, EmptyFrame)

(***************************************************************************)
(* Cleaning: clean_and_filter_data.                                        *)
(***************************************************************************)
qc_patterns == << <<"C", "C", "V">>, <<"M", "B">>,
                  <<"B", "l", "a", "n", "k">>, <<"C", "h", "e", "c", "k">> >>

key_columns == <<"Sample ID", "Result">>

\* str.contains(qc_regex, case=False) on the text of one cell
MatchesQC(v) ==
    \E p \in 1..Len(qc_patterns) : Contains(Lower(AsStr(v)), Lower(qc_patterns[p]))

\* df.dropna(how='all')
DropBlankRows(df) ==
    [df EXCEPT !.rows = SelectRows(df.rows,
        {i \in 1..Len(df.rows) : \E c \in DOMAIN df.rows[i] : df.rows[i][c].k # "null"})]

\* DropQCRows with a search that minds the letter case
DropQCRowsCaseSensitive(df) ==
    [df EXCEPT !.rows = SelectRows(df.rows,
        {i \in 1..Len(df.rows) : \A c \in DOMAIN df.rows[i] :
            \A p \in 1..Len(qc_patterns) :
               ~Contains(AsStr(df.rows[i][c]), qc_patterns[p])})]

\* df[~df.astype(str).apply(... str.contains ...).any(axis=1)]
DropQCRows(df) ==
    [df EXCEPT !.rows = SelectRows(df.rows,
        {i \in 1..Len(df.rows) : \A c \in DOMAIN df.rows[i] : ~MatchesQC(df.rows[i][c])})]

\* DropPartialRows enforcing a key column on the rows of the tables that
\* have a value in it only
DropPartialRowsPerTable(df) ==
    LET key_columns_exist == SelectSeq(key_columns, LAMBDA c : c \in Range(df.cols))
        inTable(i, c) == \E j \in 1..Len(df.rows) :
                            /\ df.rows[j][SourceSheet] = df.rows[i][SourceSheet]
                            /\ df.rows[j][c].k # "null"
    IN  [df EXCEPT !.rows = SelectRows(df.rows,
            {i \in 1..Len(df.rows) :
               \A c \in Range(key_columns_exist) :
                  df.rows[i][c].k # "null" \/ ~inTable(i, c)})]

\* key_columns_exist and df.dropna(subset=key_columns_exist)
DropPartialRows(df) ==
    LET key_columns_exist == SelectSeq(key_columns, LAMBDA c : c \in Range(df.cols))
    IN  [df EXCEPT !.rows = SelectRows(df.rows,
            {i \in 1..Len(df.rows) :
               \A c \in Range(key_columns_exist) : df.rows[i][c].k # "null"})]

\* Series.str on an object column raises AttributeError unless the values
\* that are not null are strings, a mix of strings and others, or none at all
StrAccessorRaises(df, c) ==
    /\ df.dtype[c] = "object"
    /\ \E i \in 1..Len(df.rows) : df.rows[i][c].k # "null"
    /\ \A i \in 1..Len(df.rows) : df.rows[i][c].k # "str"

\* df[col].str.strip() for every object column: strings are stripped, a cell
\* that is not a string becomes NaN
StripStrings(df) ==
    [df EXCEPT !.rows = [i \in 1..Len(df.rows) |->
        [c \in DOMAIN df.rows[i] |->
            IF df.dtype[c] # "object" THEN df.rows[i][c]
            ELSE IF df.rows[i][c].k = "str" THEN Str(Strip(df.rows[i][c].s))
            ELSE Null]]]

\* clean_and_filter_data(df): raised tells that the call ended in an exception
clean_and_filter_data(df) ==
    LET kept == DropPartialRows(DropQCRows(DropBlankRows(df)))
    IN  IF \E c \in Range(kept.cols) : StrAccessorRaises(kept, c)
        THEN [raised |-> TRUE, df |-> kept]
        ELSE [raised |-> FALSE, df |-> StripStrings(kept)]

(***************************************************************************)
(* The remote document library.  The folder tree is fixed; the timestamp   *)
(* and the content of the two data files change between runs.              *)
(***************************************************************************)
Dot == "."

XlsxName(stem) == stem \o <<Dot, "x", "l", "s", "x">>

RootFolder == "/Documents/Lab"

\* folder path -> the files and the subfolders that listing it returns
Tree ==
    [p \in {RootFolder, "/Documents/Lab/sub", "/Documents/Lab/Forms",
            "/Documents/Lab/_arch", "/Documents/Lab/tmp"} |->
       CASE p = RootFolder ->
              [files   |-> << [name |-> XlsxName(<<"a">>), url |-> "/Documents/Lab/a.xlsx"],
                              [name |-> <<"n", "o", "t", "e", "s", Dot, "t", "x", "t">>,
                               url  |-> "/Documents/Lab/notes.txt"] >>,
               folders |-> << [name |-> <<"F", "o", "r", "m", "s">>,
                               url  |-> "/Documents/Lab/Forms"],
                              [name |-> <<"t", "m", "p">>, url |-> "/Documents/Lab/tmp"],
                              [name |-> <<"s", "u", "b">>, url |-> "/Documents/Lab/sub"],
                              [name |-> <<"_", "a", "r", "c", "h">>,
                               url  |-> "/Documents/Lab/_arch"] >>]
         [] p = "/Documents/Lab/sub" ->
              [files   |-> << [name |-> <<"B", Dot, "X", "L", "S">>,
                               url  |-> "/Documents/Lab/sub/B.XLS"] >>,
               folders |-> <<>>]
         [] p = "/Documents/Lab/tmp" ->
              [files   |-> << [name |-> <<"l", "o", "g", Dot, "c", "s", "v">>,
                               url  |-> "/Documents/Lab/tmp/log.csv"] >>,
               folders |-> <<>>]
         [] p = "/Documents/Lab/Forms" ->
              [files   |-> << [name |-> XlsxName(<<"t">>),
                               url  |-> "/Documents/Lab/Forms/t.xlsx"] >>,
               folders |-> <<>>]
         [] OTHER ->
              [files   |-> << [name |-> XlsxName(<<"o", "l", "d">>),
                               url  |-> "/Documents/Lab/_arch/old.xlsx"] >>,
               folders |-> <<>>]]

\* the data files, whose remote state changes
FileA == "/Documents/Lab/a.xlsx"

FileB == "/Documents/Lab/sub/B.XLS"

DataFiles == {FileA, FileB}

\* every tabular file of the library
AllFiles == DataFiles \cup {"/Documents/Lab/Forms/t.xlsx", "/Documents/Lab/_arch/old.xlsx"}

\* the sets of folders whose listing fails in one walk
ListFailures == {{}, {RootFolder}, {"/Documents/Lab/sub"}, {"/Documents/Lab/tmp"}}

\* file.name.lower().endswith(('.xlsx', '.xls'))
IsExcelName(name) ==
    \/ EndsWith(Lower(name), <<Dot, "x", "l", "s", "x">>)
    \/ EndsWith(Lower(name), <<Dot, "x", "l", "s">>)

\* not folder.name.startswith('_') and folder.name != 'Forms'
IsDataFolder(name) ==
    /\ ~StartsWith(name, <<"_">>)
    /\ name # <<"F", "o", "r", "m", "s">>

\* list_excel_files_recursive(ctx, folder_path); listFails: the folders whose
\* execute_query raises, which the except clause turns into an empty result
RECURSIVE list_excel_files_recursive(_, _)
RECURSIVE ListSubfolders(_, _, _)
\* ListSubfolders in which the failure of the listing of a subfolder ends the
\* loop over the subfolders
ListSubfoldersStopAtFailure(folders, k, listFails) ==
    IF k > Len(folders) \/ folders[k].url \in listFails THEN <<>>
    ELSE (IF IsDataFolder(folders[k].name)
          THEN list_excel_files_recursive(folders[k].url, listFails)
          ELSE <<>>)
         \o ListSubfolders(folders, k + 1, listFails)

list_excel_files_recursive(folder_path, listFails) ==
    IF folder_path \in listFails THEN <<>>
    ELSE LET here  == Tree[folder_path]
             names == SelectSeq(here.files, LAMBDA f : IsExcelName(f.name))
         IN  [i \in 1..Len(names) |-> names[i].url]
             \o ListSubfolders(here.folders, 1, listFails)

ListSubfolders(folders, k, listFails) ==
    IF k > Len(folders) THEN <<>>
    ELSE (IF IsDataFolder(folders[k].name)
          THEN list_excel_files_recursive(folders[k].url, listFails)
          ELSE <<>>)
         \o ListSubfolders(folders, k + 1, listFails)

(***************************************************************************)
(* Timestamps.  TimeLastModified is a string such as 2023-10-27T10:00:00Z: *)
(* an instant and the zone designator it is written with.                  *)
(***************************************************************************)
\* file.time_last_modified.replace('Z', '+00:00')
ReplaceZ(raw) == [raw EXCEPT !.zone = IF @ = "Z" THEN "+00:00" ELSE @]

\* datetime.fromisoformat: the instant with its UTC offset in minutes
FromIsoFormat(text) == [t |-> text.t, offset |-> 0]

\* datetime.isoformat(): an aware datetime is written with its numeric offset
IsoFormat(dt) == [t |-> dt.t, zone |-> "+00:00"]

\* last_modified_str of run_etl for the TimeLastModified string raw
last_modified_str(raw) == IsoFormat(FromIsoFormat(ReplaceZ(raw)))

(***************************************************************************)
(* Workbook contents.                                                      *)
(***************************************************************************)
S(stem) == Str(stem)

\* one Batch Sheet: a valid row and a fully blank row
Wb1 ==
    << [name |-> BatchSheet, cols |-> <<"Sample ID", "Result">>,
        rows |-> << <<S(<<"S", "1">>), Num(<<"5">>)>>, <<Null, Null>> >>] >>

\* Wb1 with one more valid row, whose Sample ID has blanks around it
Wb2 ==
    << [name |-> BatchSheet, cols |-> <<"Sample ID", "Result">>,
        rows |-> << <<S(<<"S", "1">>), Num(<<"5">>)>>, <<Null, Null>>,
                    <<S(<<" ", "S", "2", " ">>), Num(<<"7">>)>> >>] >>

\* no sheet that matches a target name
Wb3 ==
    << [name |-> <<"S", "u", "m", "m", "a", "r", "y">>, cols |-> <<"Total">>,
        rows |-> << <<Num(<<"1">>)>> >>] >>

\* both target sheets; the key columns are in the batch sheet only, and the
\* product sheet has a QC row
Wb4 ==
    << [name |-> <<"b", "a", "t", "c", "h", " ", "s", "h", "e", "e", "t", " ", "2", "4">>,
        cols |-> <<"Sample ID", "Result">>,
        rows |-> << <<S(<<"S", "3">>), Num(<<"9">>)>> >>],
       [name |-> ProductInfo, cols |-> <<"Product", "Note">>,
        rows |-> << <<S(<<"P", "1">>), S(<<"o", "k">>)>>,
                    <<S(<<"m", "b", "-", "2">>), S(<<"q", "c">>)>> >>] >>

\* a Result column of mixed cells whose only string is in a QC row
Wb5 ==
    << [name |-> BatchSheet, cols |-> <<"Sample ID", "Result">>,
        rows |-> << <<S(<<"S", "4">>), Num(<<"3">>)>>,
                    <<S(<<"C", "C", "V">>), S(<<"l", "o", "w">>)>> >>] >>

Workbooks == {Wb1, Wb2, Wb3, Wb4, Wb5}

SheetNames(wb) == {wb[i].name : i \in 1..Len(wb)}

\* the content each data file may have at the start
InitialContent == [f \in DataFiles |-> IF f = FileA THEN {Wb1, Wb4, Wb5} ELSE {Wb1, Wb3}]

\* what an edit of a workbook gives: a row is added to Wb1 and removed from
\* Wb2, and the other workbooks are replaced by Wb1
Edited(wb) == IF wb = Wb1 THEN Wb2 ELSE Wb1

(***************************************************************************)
(* The files on the local disk.                                            *)
(*   ledgerFile: processed_files.json; "truncated" is the file between     *)
(*     open(log_file, 'w') and the end of json.dump, which does not parse. *)
(*   masterFile: master_lab_results.xlsx; "corrupt" is a file that         *)
(*     pd.read_excel cannot read.                                          *)
(***************************************************************************)
NoLedger == [f \in {} |-> Null]

\* m with m[k] = v, as the dict assignment m[k] = v
Put(m, k, v) == [x \in DOMAIN m \cup {k} |-> IF x = k THEN v ELSE m[x]]

\* stands for "no entry" where an entry of the ledger is expected
NoEntry == [t |-> 0, zone |-> "none"]

\* m.get(k): the entry of k, or NoEntry
Entry(m, k) == IF k \in DOMAIN m THEN m[k] ELSE NoEntry

\* load_processed_files_log(log_file)
load_processed_files_log(file) ==
    IF file.state = "complete" THEN file.data ELSE NoLedger

\* a cell as pd.read_excel returns it after DataFrame.to_excel wrote it:
\* the empty string is written as an empty cell and read back as NaN
ExcelCell(v) == IF v.k = "str" /\ v.s = <<>> THEN Null ELSE v

\* the content of the master file that to_excel writes for df
ToExcel(df) ==
    [state |-> "ok", cols |-> df.cols,
     rows  |-> [i \in 1..Len(df.rows) |->
                  [c \in DOMAIN df.rows[i] |-> ExcelCell(df.rows[i][c])]]]

\* pd.read_excel(MASTER_OUTPUT_FILE) of a readable master file
ReadExcel(file) ==
    [cols  |-> file.cols,
     dtype |-> [c \in Range(file.cols) |->
                  InferDtype([i \in 1..Len(file.rows) |-> file.rows[i][c]])],
     rows  |-> file.rows]

NoMaster == [state |-> "absent", cols |-> <<>>, rows |-> <<>>]

CorruptMaster == [state |-> "corrupt", cols |-> <<>>, rows |-> <<>>]

(***************************************************************************)
(* State.                                                                  *)
(***************************************************************************)
VARIABLES
    remote,         \* url -> [ts, wb]: TimeLastModified and content of each file
    prevRemote,     \* url -> the remote state before its last change, or NoRemote
    ledgerFile,     \* processed_files.json on disk
    masterFile,     \* the master workbook on disk
    recorded,       \* the ledger that the last completed save wrote
    pc,             \* "idle", "loop", "save", "dump", "done"
    all_excel_files,                \* run_etl's locals
    idx,                            \* position of the for loop
    processed_files_log,
    updated_processed_files_log,
    data_to_append,
    run,            \* what happened in the current or last run
    runs,           \* runs started and not interrupted
    events,         \* remote changes, interrupted runs and failed calls
    file_content,   \* the per-file pipeline: the workbook read,
    parse_fails,    \*   the sheets whose xls.parse raises,
    extracted_data, \*   what process_excel_file returned (file_data),
    frame,          \*   df inside clean_and_filter_data,
    stage,          \*   the position in the pipeline,
    steps           \*   the frames at the end of each step of the cleaning

vars == <<remote, prevRemote, ledgerFile, masterFile, recorded, pc,
          all_excel_files, idx, processed_files_log,
          updated_processed_files_log, data_to_append, run, runs, events,
          file_content, parse_fails, extracted_data, frame, stage, steps>>

pipeline == <<file_content, parse_fails, extracted_data, frame, stage, steps>>

disk == <<ledgerFile, masterFile>>

locals == <<all_excel_files, idx, processed_files_log,
            updated_processed_files_log, data_to_append>>

\* the record of a run that has not done anything yet
NoRun ==
    [outcome   |-> "none",      \* "running", "no_connection", "exception",
                                \* "write_failed", "saved"
     failed    |-> FALSE,       \* a remote call, a decode, a parse or a master
                                \* read or write failed
     cls       |-> [f \in AllFiles |-> "none"],   \* classification of each file
     tsFailed  |-> {},          \* files whose timestamp was not obtained
     read      |-> {},          \* files whose content read was attempted
     readFailed |-> {},         \* files whose content read failed
     extracted |-> {},          \* files given to process_excel_file
     noRows    |-> {},          \* files decoded and parsed without failure
                                \* that yielded no extracted row
     wrote     |-> FALSE,       \* the master write of this run succeeded
     startMaster |-> NoMaster,  \* the master file at run start
     startLedger |-> [state |-> "absent", data |-> NoLedger],
     afterRun  |-> FALSE,       \* the run before went through to its last
                                \* step, and nothing changed remotely since
     afterQuiet |-> FALSE,      \* ... and it saved the ledger and nothing
                                \* failed in it
     retry     |-> {},          \* files processed in the run before, if its
                                \* master write failed
     skipped   |-> NoLedger,    \* url -> loaded ledger entry, for the files
                                \* whose timestamp the run before did not get
     listFails |-> {},          \* folders whose listing failed in the walk
     took      |-> {},          \* files whose cleaned rows were added to
                                \* data_to_append
     redo      |-> {}]          \* files whose rows the run before wrote to the
                                \* master file before it was interrupted, with
                                \* no remote change since

\* stands for "no earlier remote state"
NoRemote == [ts |-> [t |-> 0, zone |-> "Z"], wb |-> <<>>]

\* the per-file pipeline at rest
PipelineOff ==
    /\ file_content = <<>>
    /\ parse_fails = {}
    /\ extracted_data = EmptyFrame
    /\ frame = EmptyFrame
    /\ stage = "off"
    /\ steps = <<>>

Init ==
    /\ remote \in [AllFiles -> [ts : {[t |-> 1, zone |-> "Z"]}, wb : Workbooks]]
    /\ \A f \in DataFiles : remote[f].wb \in InitialContent[f]
    /\ \A f \in AllFiles \ DataFiles : remote[f].wb = Wb1
    /\ prevRemote = [f \in AllFiles |-> NoRemote]
    /\ ledgerFile = [state |-> "absent", data |-> NoLedger]
    /\ masterFile = NoMaster
    /\ recorded = NoLedger
    /\ pc = "idle"
    /\ all_excel_files = <<>>
    /\ idx = 1
    /\ processed_files_log = NoLedger
    /\ updated_processed_files_log = NoLedger
    /\ data_to_append = EmptyFrame
    /\ run = NoRun
    /\ runs = 0
    /\ events = 0
    /\ PipelineOff

(***************************************************************************)
(* run_etl, from its start to the for loop: connect_to_sharepoint,         *)
(* list_excel_files_recursive, load_processed_files_log.                   *)
(***************************************************************************)
Processed(r) == {f \in AllFiles : r.cls[f] \in {"New", "Modified"}}

StartRun ==
    /\ pc \in {"idle", "done"}
    /\ runs < MaxRuns
    /\ runs' = runs + 1
    /\ LET base == [NoRun EXCEPT
                      !.outcome = "running",
                      !.startMaster = masterFile,
                      !.startLedger = ledgerFile,
                      !.afterRun = (pc = "done"
                                    /\ run.outcome \in {"saved", "write_failed"}),
                      !.afterQuiet = (pc = "done" /\ ~run.failed
                                                   /\ run.outcome = "saved"),
                      !.retry = IF pc = "done" /\ run.outcome = "write_failed"
                                THEN Processed(run) ELSE {},
                      !.skipped = IF pc = "done"
                                  THEN [f \in run.tsFailed |->
                                          Entry(processed_files_log, f)]
                                  ELSE NoLedger,
                      !.redo = IF pc = "idle" THEN run.redo ELSE {}]
       IN  \/ \* connect_to_sharepoint returns None: run_etl returns
              /\ events < MaxEvents
              /\ events' = events + 1
              /\ pc' = "done"
              /\ run' = [base EXCEPT !.outcome = "no_connection", !.failed = TRUE]
              /\ all_excel_files' = <<>>
              /\ idx' = 1
              /\ processed_files_log' = NoLedger
              /\ updated_processed_files_log' = NoLedger
              /\ data_to_append' = EmptyFrame
           \/ \E listFails \in ListFailures :
              /\ events + Cardinality(listFails) <= MaxEvents
              /\ events' = events + Cardinality(listFails)
              /\ pc' = "loop"
              /\ run' = [base EXCEPT !.failed = (listFails # {}),
                                     !.listFails = listFails]
              /\ all_excel_files' = list_excel_files_recursive(RootFolder, listFails)
              /\ idx' = 1
              /\ processed_files_log' = load_processed_files_log(ledgerFile)
              /\ updated_processed_files_log' = load_processed_files_log(ledgerFile)
              /\ data_to_append' = EmptyFrame
    /\ UNCHANGED <<remote, prevRemote, disk, recorded, pipeline>>

(***************************************************************************)
(* One iteration of the for loop of run_etl.                               *)
(***************************************************************************)
\* Classify without the comparison of the timestamps: a file of the log is
\* always taken as modified
ClassifyNoSkip(log, file_url, str) ==
    IF file_url \in DOMAIN log THEN "Modified" ELSE "New"

\* Classify with the test of the timestamps inverted
ClassifyInverted(log, file_url, str) ==
    IF file_url \in DOMAIN log
    THEN IF log[file_url] = str THEN "Modified" ELSE "Unchanged"
    ELSE "New"

\* Classify taking a file that is not in the log as unchanged
ClassifyAbsentUnchanged(log, file_url, str) ==
    IF file_url \in DOMAIN log
    THEN IF log[file_url] = str THEN "Unchanged" ELSE "Modified"
    ELSE "Unchanged"

\* the if chain on processed_files_log: which branch the file takes
Classify(log, file_url, str) ==
    IF file_url \in DOMAIN log
    THEN IF log[file_url] = str THEN "Unchanged" ELSE "Modified"
    ELSE "New"

\* LogAfterNoTimestamp dropping the entry of the file
LogWithoutFile(updated, file_url) ==
    [f \in DOMAIN updated \ {file_url} |-> updated[f]]

\* the else branch of "if last_modified_time": the log is left as it is
LogAfterNoTimestamp(updated, file_url) == updated

\* the log after the file's data was extracted: the entry is set when the
\* extracted frame is not empty
LogAfterExtract(updated, file_url, str, file_data) ==
    IF ~IsEmpty(file_data) THEN Put(updated, file_url, str) ELSE updated

ProcessFile ==
    /\ pc = "loop"
    /\ idx <= Len(all_excel_files)
    /\ LET file_url == all_excel_files[idx]
           raw == remote[file_url].ts
           wb  == remote[file_url].wb
           str == last_modified_str(raw)
           kind == Classify(processed_files_log, file_url, str)
       IN  \/ \* get_sharepoint_file_modified_time returns None
              /\ events < MaxEvents
              /\ events' = events + 1
              /\ run' = [run EXCEPT !.failed = TRUE, !.tsFailed = @ \cup {file_url}]
              /\ updated_processed_files_log' =
                     LogAfterNoTimestamp(updated_processed_files_log, file_url)
              /\ UNCHANGED data_to_append
              /\ pc' = "loop" /\ idx' = idx + 1
           \/ \* not modified since last run: continue
              /\ kind = "Unchanged"
              /\ UNCHANGED events
              /\ run' = [run EXCEPT !.cls[file_url] = kind]
              /\ UNCHANGED <<updated_processed_files_log, data_to_append>>
              /\ pc' = "loop" /\ idx' = idx + 1
           \/ \* read_excel_from_sharepoint returns None
              /\ kind # "Unchanged"
              /\ events < MaxEvents
              /\ events' = events + 1
              /\ run' = [run EXCEPT !.cls[file_url] = kind, !.failed = TRUE,
                                    !.read = @ \cup {file_url},
                                    !.readFailed = @ \cup {file_url}]
              /\ UNCHANGED <<updated_processed_files_log, data_to_append>>
              /\ pc' = "loop" /\ idx' = idx + 1
           \/ \* the content is read; pd.ExcelFile may raise, and so may
              \* xls.parse for any of the sheets
              /\ kind # "Unchanged"
              /\ \E decodeFails \in BOOLEAN, parseFails \in SUBSET SheetNames(wb) :
                 LET file_data == process_excel_file(wb, decodeFails, parseFails)
                     cleaned == clean_and_filter_data(file_data)
                     parseFailed ==
                         \E k \in 1..Len(sheets_to_process) :
                            LET m == MatchSheet(wb, sheets_to_process[k])
                            IN  m # 0 /\ wb[m].name \in parseFails
                     hard == decodeFails \/ parseFailed
                     seen == [run EXCEPT
                                !.cls[file_url] = kind,
                                !.failed = @ \/ hard,
                                !.read = @ \cup {file_url},
                                !.extracted = @ \cup {file_url},
                                !.noRows = IF ~hard /\ IsEmpty(file_data)
                                           THEN @ \cup {file_url} ELSE @,
                                !.took = IF /\ ~IsEmpty(file_data)
                                            /\ ~cleaned.raised
                                            /\ cleaned.df.rows # <<>>
                                         THEN @ \cup {file_url} ELSE @]
                     failing == Cardinality(parseFails) + IF decodeFails THEN 1 ELSE 0
                 IN  /\ (decodeFails => parseFails = {})
                     /\ events + failing <= MaxEvents
                     /\ events' = events + failing
                     /\ (\A n \in parseFails :
                           \E k \in 1..Len(sheets_to_process) :
                              LET m == MatchSheet(wb, sheets_to_process[k])
                              IN  m # 0 /\ wb[m].name = n)
                     /\ IF ~IsEmpty(file_data) /\ cleaned.raised
                        THEN \* the exception leaves run_etl
                             /\ pc' = "done"
                             /\ run' = [seen EXCEPT !.outcome = "exception"]
                             /\ UNCHANGED <<idx, updated_processed_files_log,
                                            data_to_append>>
                        ELSE /\ pc' = "loop"
                             /\ idx' = idx + 1
                             /\ run' = seen
                             /\ data_to_append' =
                                    IF ~IsEmpty(file_data)
                                    THEN Concat(data_to_append, cleaned.df)
                                    ELSE data_to_append
                             /\ updated_processed_files_log' =
                                    LogAfterExtract(updated_processed_files_log,
                                                    file_url, str, file_data)
    /\ UNCHANGED <<remote, prevRemote, disk, recorded, all_excel_files,
                   processed_files_log, runs, pipeline>>

(***************************************************************************)
(* After the loop: the master file is read, extended and written, and the  *)
(* ledger is saved.  save_processed_files_log opens the file for writing,  *)
(* which truncates it, and then dumps the log into it.                     *)
(***************************************************************************)
\* AfterMasterWrite with the save of the log after the try block
AfterMasterWriteSaves(written) == "save"

\* where run_etl continues after the try block around the master write: the
\* save of the log is inside the try block, after to_excel
AfterMasterWrite(written) == IF written THEN "save" ELSE "done"

\* the data written: the existing rows, then the new ones
Consolidated(file, new_data) ==
    IF file.state # "absent" THEN Concat(ReadExcel(file), new_data) ELSE new_data

Merge ==
    /\ pc = "loop"
    /\ idx > Len(all_excel_files)
    /\ IF ~IsEmpty(data_to_append)
       THEN \/ \* pd.read_excel raises: the file is there and is not a workbook
               /\ masterFile.state = "corrupt"
               /\ pc' = AfterMasterWrite(FALSE)
               /\ run' = [run EXCEPT !.failed = TRUE, !.outcome = "write_failed"]
               /\ UNCHANGED <<masterFile, events>>
            \/ \* pd.read_excel raises though the file is a workbook
               /\ masterFile.state = "ok"
               /\ events < MaxEvents
               /\ events' = events + 1
               /\ pc' = AfterMasterWrite(FALSE)
               /\ run' = [run EXCEPT !.failed = TRUE, !.outcome = "write_failed"]
               /\ UNCHANGED masterFile
            \/ \* to_excel raises, before or after it has opened the file
               /\ masterFile.state # "corrupt"
               /\ events < MaxEvents
               /\ events' = events + 1
               /\ pc' = AfterMasterWrite(FALSE)
               /\ run' = [run EXCEPT !.failed = TRUE, !.outcome = "write_failed"]
               /\ masterFile' \in {masterFile, CorruptMaster}
            \/ \* the master file is written
               /\ masterFile.state # "corrupt"
               /\ pc' = AfterMasterWrite(TRUE)
               /\ run' = [run EXCEPT !.wrote = TRUE]
               /\ UNCHANGED events
               /\ masterFile' = ToExcel(Consolidated(masterFile, data_to_append))
       ELSE \* no new or modified data to append: the log is still saved
            /\ pc' = "save"
            /\ UNCHANGED <<masterFile, run, events>>
    /\ UNCHANGED <<remote, prevRemote, ledgerFile, recorded, locals, runs,
                   pipeline>>

\* open(log_file, 'w')
SaveOpen ==
    /\ pc = "save"
    /\ ledgerFile' = [state |-> "truncated", data |-> NoLedger]
    /\ pc' = "dump"
    /\ UNCHANGED <<remote, prevRemote, masterFile, recorded, locals, run, runs,
                   events, pipeline>>

\* json.dump(processed_files, f, indent=4) and the close of the file
SaveDump ==
    /\ pc = "dump"
    /\ ledgerFile' = [state |-> "complete", data |-> updated_processed_files_log]
    /\ recorded' = updated_processed_files_log
    /\ pc' = "done"
    /\ run' = [run EXCEPT !.outcome = "saved"]
    /\ UNCHANGED <<remote, prevRemote, masterFile, locals, runs, events,
                   pipeline>>

(***************************************************************************)
(* The environment: the process is killed during a run; a remote file is   *)
(* modified between runs.                                                  *)
(***************************************************************************)
ForgetLocals ==
    /\ all_excel_files' = <<>>
    /\ idx' = 1
    /\ processed_files_log' = NoLedger
    /\ updated_processed_files_log' = NoLedger
    /\ data_to_append' = EmptyFrame

Forget ==
    /\ ForgetLocals
    /\ run' = NoRun

Crash ==
    /\ pc \in {"loop", "save", "dump"}
    /\ events < MaxEvents
    /\ events' = events + 1
    /\ runs' = runs - 1
    /\ pc' = "idle"
    /\ ForgetLocals
    /\ run' = [NoRun EXCEPT !.redo = IF run.wrote THEN run.took ELSE {}]
    /\ UNCHANGED <<remote, prevRemote, disk, recorded, pipeline>>

RemoteChange ==
    /\ pc \in {"idle", "done"}
    /\ events < MaxEvents
    /\ events' = events + 1
    /\ \E f \in DataFiles : \E wb \in {remote[f].wb, Edited(remote[f].wb)} :
          /\ remote' = [remote EXCEPT
                          ![f] = [ts |-> [t |-> remote[f].ts.t + 1, zone |-> "Z"],
                                  wb |-> wb]]
          /\ prevRemote' = [prevRemote EXCEPT ![f] = remote[f]]
    /\ pc' = "idle"
    /\ Forget
    /\ UNCHANGED <<disk, recorded, runs, pipeline>>

Next ==
    \/ StartRun
    \/ ProcessFile
    \/ Merge
    \/ SaveOpen
    \/ SaveDump
    \/ Crash
    \/ RemoteChange

Spec == Init /\ [][Next]_vars

(***************************************************************************)
(* The pipeline of one file, step by step: process_excel_file, the steps   *)
(* of clean_and_filter_data, and the append to the master file, for a      *)
(* workbook drawn from a bounded set of workbooks.                         *)
(***************************************************************************)
\* the rows a sheet may hold (first cell, second cell): a valid row, a blank
\* row, rows with one null cell, rows with a QC marker in lower or mixed
\* case, a number next to text, a cell of blanks only
InputRows ==
    { <<S(<<"S", "1">>), Num(<<"5">>)>>,
      <<Null, Null>>,
      <<S(<<" ", "S", "2", " ">>), Null>>,
      <<Null, Num(<<"7">>)>>,
      <<S(<<"b", "l", "a", "n", "k", " ", "1">>), Num(<<"0">>)>>,
      <<S(<<"S", "6">>), S(<<"R", "e", "c", "h", "e", "c", "k">>)>>,
      <<Num(<<"1", "2">>), S(<<"l", "o", "w">>)>>,
      <<S(<<"S", "8">>), S(<<" ">>)>> }

\* the rows of the sheets of a workbook of two sheets
PairRows ==
    { <<S(<<" ", "S", "1">>), Num(<<"5">>)>>,
      <<Null, Null>> }

\* the sequences of at most n elements of pool
RECURSIVE SeqsUpTo(_, _)
SeqsUpTo(pool, n) ==
    IF n = 0 THEN {<<>>}
    ELSE LET shorter == SeqsUpTo(pool, n - 1)
         IN  shorter \cup {Append(q, r) : q \in shorter, r \in pool}

InputSheetNames ==
    { BatchSheet,
      <<"b", "a", "t", "c", "h", " ", "s", "h", "e", "e", "t", " ", "2", "4">>,
      ProductInfo,
      <<"P", "r", "o", "d", "u", "c", "t", " ", "I", "n", "f", "o", " ",
        "C", "h", "e", "c", "k">>,
      <<"S", "u", "m", "m", "a", "r", "y">> }

InputHeaders == { <<"Sample ID", "Result">>, <<"Product", "Note">> }

InputSheets(pool, n) ==
    [name : InputSheetNames, cols : InputHeaders, rows : SeqsUpTo(pool, n)]

\* workbooks of one sheet, and of two sheets of different names
InputWorkbooks ==
    {<<sh>> : sh \in InputSheets(InputRows, MaxRows)}
    \cup {w \in {<<sh, th>> : sh, th \in InputSheets(PairRows, MaxRows)} :
            w[1].name # w[2].name}

\* the sheets of wb that the targets of sheets_to_process match
MatchedSheets(wb) ==
    {wb[MatchSheet(wb, sheets_to_process[k])].name :
       k \in {j \in 1..Len(sheets_to_process) : MatchSheet(wb, sheets_to_process[j]) # 0}}

\* the variables of run_etl that the pipeline of one file leaves alone
outside == <<remote, prevRemote, ledgerFile, recorded, pc, all_excel_files, idx,
             processed_files_log, updated_processed_files_log, run, runs, events>>

FileInit ==
    /\ file_content \in InputWorkbooks
    /\ parse_fails \in SUBSET MatchedSheets(file_content)
    /\ extracted_data = EmptyFrame
    /\ frame = EmptyFrame
    /\ stage = "read"
    /\ steps = <<>>
    /\ remote = [f \in AllFiles |-> [ts |-> [t |-> 1, zone |-> "Z"], wb |-> Wb1]]
    /\ prevRemote = [f \in AllFiles |-> NoRemote]
    /\ ledgerFile = [state |-> "absent", data |-> NoLedger]
    /\ masterFile = NoMaster
    /\ recorded = NoLedger
    /\ pc = "loop"
    /\ all_excel_files = <<FileA>>
    /\ idx = 1
    /\ processed_files_log = NoLedger
    /\ updated_processed_files_log = NoLedger
    /\ data_to_append = EmptyFrame
    /\ run = NoRun
    /\ runs = 1
    /\ events = 0

\* file_data = process_excel_file(file_content) and the test of file_data.empty
Extract ==
    /\ stage = "read"
    /\ \/ \* pd.ExcelFile raises
          /\ parse_fails = {}
          /\ extracted_data' = process_excel_file(file_content, TRUE, parse_fails)
          /\ stage' = "undecoded"
          /\ UNCHANGED frame
       \/ /\ extracted_data' = process_excel_file(file_content, FALSE, parse_fails)
          /\ stage' = IF IsEmpty(extracted_data') THEN "no_data" ELSE "extracted"
          /\ frame' = IF IsEmpty(extracted_data') THEN frame ELSE extracted_data'
    /\ steps' = <<>>
    /\ UNCHANGED <<file_content, parse_fails, masterFile, data_to_append, outside>>

\* df.dropna(how='all', inplace=True)
CleanBlank ==
    /\ stage = "extracted"
    /\ frame' = DropBlankRows(frame)
    /\ steps' = <<frame, frame'>>
    /\ stage' = "blank"
    /\ UNCHANGED <<file_content, parse_fails, extracted_data, masterFile,
                   data_to_append, outside>>

\* df = df[~ ... .any(axis=1)]
CleanQC ==
    /\ stage = "blank"
    /\ frame' = DropQCRows(frame)
    /\ steps' = Append(steps, frame')
    /\ stage' = "qc"
    /\ UNCHANGED <<file_content, parse_fails, extracted_data, masterFile,
                   data_to_append, outside>>

\* df.dropna(subset=key_columns_exist, inplace=True)
CleanKey ==
    /\ stage = "qc"
    /\ frame' = DropPartialRows(frame)
    /\ steps' = Append(steps, frame')
    /\ stage' = "key"
    /\ UNCHANGED <<file_content, parse_fails, extracted_data, masterFile,
                   data_to_append, outside>>

\* the loop of df[col].str.strip(), and the return of df
CleanTrim ==
    /\ stage = "key"
    /\ IF \E c \in Range(frame.cols) : StrAccessorRaises(frame, c)
       THEN /\ stage' = "raised"
            /\ UNCHANGED <<frame, steps>>
       ELSE /\ stage' = "cleaned"
            /\ frame' = StripStrings(frame)
            /\ steps' = Append(steps, frame')
    /\ UNCHANGED <<file_content, parse_fails, extracted_data, masterFile,
                   data_to_append, outside>>

\* data_to_append = pd.concat([data_to_append, cleaned_data]) and the write of
\* the master file when data_to_append is not empty
AppendFile ==
    /\ stage = "cleaned"
    /\ data_to_append' = Concat(data_to_append, frame)
    /\ masterFile' = IF ~IsEmpty(data_to_append')
                     THEN ToExcel(Consolidated(masterFile, data_to_append'))
                     ELSE masterFile
    /\ stage' = "merged"
    /\ UNCHANGED <<file_content, parse_fails, extracted_data, frame, steps, outside>>

FileNext ==
    \/ Extract
    \/ CleanBlank
    \/ CleanQC
    \/ CleanKey
    \/ CleanTrim
    \/ AppendFile

FileSpec == FileInit /\ [][FileNext]_vars

(***************************************************************************)
(* Properties.                                                             *)
(***************************************************************************)
\* the ledger as a run would load it from the disk now
DiskLedger == load_processed_files_log(ledgerFile)

\* last_modified_str of the file as it is on the remote side now
CurStr(f) == last_modified_str(remote[f].ts)

\* the run that just ended left the master file and the ledger as they were
NothingAppended ==
    /\ masterFile = run.startMaster
    /\ DiskLedger = load_processed_files_log(run.startLedger)

\* the run that just ended added no row to the master file and left the
\* ledger contents as they were
NoRowAppended ==
    /\ Len(masterFile.rows) <= Len(run.startMaster.rows)
    /\ DiskLedger = load_processed_files_log(run.startLedger)

\* C1 as stated: a run that follows a run, with no remote change in between,
\* appends no row to the master dataset and leaves the ledger contents
\* unchanged.
C1_SecondRunAppendsNothing ==
    (pc = "done" /\ run.afterRun) => NoRowAppended

\* C1, amended: a run that follows a run which saved the ledger and in which no
\* call failed, with no remote change in between, appends no row to the
\* master dataset and leaves the ledger contents unchanged.
C1_SecondRunAfterCleanRunAppendsNothing ==
    (pc = "done" /\ run.afterQuiet) => NothingAppended

\* a second run after a clean run that ingested rows, skipping a file
C1_Witness ==
    /\ pc = "done"
    /\ run.afterQuiet
    /\ run.outcome = "saved"
    /\ masterFile.rows # <<>>
    /\ \E f \in DataFiles : run.cls[f] = "Unchanged"

\* C2: a file selected for processing that is read and opened without failure
\* and yields no extracted row has its ledger entry set to its current remote
\* timestamp when the run ends.
C2_FileWithoutRowsIsRecorded ==
    (pc = "done" /\ run.outcome = "saved") =>
        \A f \in run.noRows : Entry(DiskLedger, f) = CurStr(f)

\* C3: a run whose master write fails ends with the ledger file as it was at
\* run start; in every run the ledger file is written only after the master
\* write of the run succeeded or when there is nothing to write; and the
\* files processed in a run whose master write failed are not classified
\* Unchanged in the run that follows.
C3_LedgerOnlyAfterMasterWrite ==
    /\ (pc = "done" /\ run.outcome = "write_failed") => ledgerFile = run.startLedger
    /\ (pc # "idle" /\ ledgerFile # run.startLedger) =>
           /\ pc \in {"dump", "done"}
           /\ run.wrote \/ IsEmpty(data_to_append)
    /\ pc \in {"save", "dump"} => (run.wrote \/ IsEmpty(data_to_append))
    /\ \A f \in run.retry : run.cls[f] \in {"none", "New", "Modified"}

\* the run after a failed master write processes a file of that run again
C3_Witness ==
    /\ pc = "done"
    /\ \E f \in run.retry : run.cls[f] \in {"New", "Modified"} /\ f \in run.extracted

\* the rows that a file's content gives when every sheet parses: extracted,
\* cleaned and written to the master file
ExpectedRows(wb) ==
    LET file_data == process_excel_file(wb, FALSE, {})
        cleaned == clean_and_filter_data(file_data)
    IN  IF IsEmpty(file_data) \/ cleaned.raised THEN <<>>
        ELSE ToExcel(cleaned.df).rows

\* row r is a row of the master file (which may have more columns)
InMaster(r) ==
    \E i \in 1..Len(masterFile.rows) :
       \A c \in DOMAIN r : c \in DOMAIN masterFile.rows[i] /\ masterFile.rows[i][c] = r[c]

\* C4: when the persisted ledger records a file at its timestamp, the rows of
\* every target table of the file at that timestamp that pass cleaning are in
\* the master dataset (the master file being a readable workbook), also when
\* the parse of one of the file's matched tables failed.
C4_RecordedFileIsIngested ==
    (ledgerFile.state = "complete" /\ masterFile.state # "corrupt") =>
        \A f \in DOMAIN ledgerFile.data :
           ledgerFile.data[f] = CurStr(f) =>
              \A i \in 1..Len(ExpectedRows(remote[f].wb)) :
                 InMaster(ExpectedRows(remote[f].wb)[i])

\* the classification that the ledger loaded at run start gives a file
Expected(log, f) ==
    IF f \notin DOMAIN log THEN "New"
    ELSE IF log[f] = CurStr(f) THEN "Unchanged" ELSE "Modified"

\* C5 as stated: a classified file is New, Unchanged or Modified as the loaded
\* ledger tells; every Modified file is read and extracted in that run, and
\* only New and Modified files are read and extracted.
C5_ModifiedFileIsExtracted ==
    \A f \in AllFiles :
       /\ run.cls[f] # "none" => run.cls[f] = Expected(processed_files_log, f)
       /\ run.cls[f] = "Modified" => f \in run.read /\ f \in run.extracted
       /\ f \in run.read \cup run.extracted => run.cls[f] \in {"New", "Modified"}

\* C5, amended: a classified file is New, Unchanged or Modified as the loaded
\* ledger tells; the read of every New or Modified file is attempted in that
\* run, and the file is extracted when the read succeeds; only New and
\* Modified files are read and extracted.
C5_ChangeDetection ==
    \A f \in AllFiles :
       /\ run.cls[f] # "none" => run.cls[f] = Expected(processed_files_log, f)
       /\ run.cls[f] \in {"New", "Modified"} => f \in run.read
       /\ f \in run.read \ run.readFailed => f \in run.extracted
       /\ f \in run.read \cup run.extracted => run.cls[f] \in {"New", "Modified"}
       /\ f \in run.readFailed => f \notin run.extracted

\* a run that skipped an unchanged file and extracted a modified one
C5_Witness ==
    /\ \E f \in DataFiles : run.cls[f] = "Unchanged"
    /\ \E f \in DataFiles : run.cls[f] = "Modified" /\ f \in run.extracted

\* C6: once a run has recorded a file in the persisted ledger at a timestamp,
\* every later run in which the file still has that timestamp classifies it
\* Unchanged.  (recorded is the ledger of the last completed save; while a run
\* is in progress, that save was made by an earlier run.)
C6_RecordedFileStaysUnchanged ==
    pc \in {"loop", "save", "dump"} =>
        \A f \in DOMAIN recorded :
           (run.cls[f] # "none" /\ recorded[f] = CurStr(f)) => run.cls[f] = "Unchanged"

\* C7: a file whose timestamp is not obtained is neither read nor extracted
\* nor classified in that run, its ledger entry, present or absent, is the
\* same in the log to save and, when the run has ended, on the disk as in the
\* ledger loaded at run start; and in the run that follows, the file is
\* classified against that entry, a file without entry being New and read.
C7_NoTimestampLeavesEntry ==
    /\ \A f \in run.tsFailed :
          /\ f \notin run.read \cup run.extracted
          /\ run.cls[f] = "none"
          /\ Entry(updated_processed_files_log, f) = Entry(processed_files_log, f)
          /\ pc = "done" => Entry(DiskLedger, f) = Entry(processed_files_log, f)
    /\ \A f \in DOMAIN run.skipped :
          run.cls[f] # "none" =>
             /\ run.cls[f] = (IF run.skipped[f] = NoEntry THEN "New"
                              ELSE IF run.skipped[f] = CurStr(f) THEN "Unchanged"
                              ELSE "Modified")
             /\ run.cls[f] = "New" => f \in run.read

\* a file whose timestamp the run before did not get is New now and extracted
C7_Witness ==
    /\ pc = "done"
    /\ \E f \in DOMAIN run.skipped :
          run.skipped[f] = NoEntry /\ run.cls[f] = "New" /\ f \in run.extracted

\* the rows of old, in order, are the first rows of new, which has more
IsExtension(old, new) ==
    /\ Len(old) < Len(new)
    /\ SubSeq(new, 1, Len(old)) = old

\* C8: when the only file that a run processes is a file of the ledger whose
\* timestamp changed and whose content is the rows ingested before plus new
\* valid rows, the run grows the master dataset by the new rows only and sets
\* the file's ledger entry to the new timestamp.
C8_GrowsByNewRowsOnly ==
    (pc = "done" /\ run.outcome = "saved") =>
        \A f \in DataFiles :
           ( /\ run.cls[f] = "Modified"
             /\ Processed(run) = {f}
             /\ prevRemote[f] # NoRemote
             /\ Entry(processed_files_log, f) = last_modified_str(prevRemote[f].ts)
             /\ IsExtension(ExpectedRows(prevRemote[f].wb), ExpectedRows(remote[f].wb)) )
           => /\ Len(masterFile.rows) - Len(run.startMaster.rows)
                    = Len(ExpectedRows(remote[f].wb)) - Len(ExpectedRows(prevRemote[f].wb))
              /\ Entry(DiskLedger, f) = CurStr(f)

\* C9: when no run is in progress, also after a run was interrupted during
\* save_processed_files_log, the ledger file is a complete ledger (or absent),
\* never an empty or truncated file.
C9_LedgerFileNeverTruncated ==
    pc \in {"idle", "done"} => ledgerFile.state # "truncated"

\* C10: a run that connected and ended by itself has handled every file of
\* the traversal and has gone through the final merge-and-ledger step; it
\* ended there, with the ledger saved or with a failed master write.
C10_RunHandlesEveryFile ==
    (pc = "done" /\ run.outcome # "no_connection") =>
        /\ idx > Len(all_excel_files)
        /\ run.outcome \in {"saved", "write_failed"}

(***************************************************************************)
(* Properties of the pipeline of one file.                                 *)
(***************************************************************************)
\* the QC markers in lower case
QCMarkers ==
    { <<"c", "c", "v">>, <<"m", "b">>, <<"b", "l", "a", "n", "k">>,
      <<"c", "h", "e", "c", "k">> }

\* the text of one of the fields of row r holds a QC marker, in any letter case
RowHasMarker(r) ==
    \E c \in DOMAIN r : \E m \in QCMarkers : Contains(Lower(AsStr(r[c])), m)

\* the rows of the frame given to clean_and_filter_data that hold no QC marker
RowsWithoutMarker ==
    {i \in 1..Len(extracted_data.rows) : ~RowHasMarker(extracted_data.rows[i])}

\* C11: a row given to clean_and_filter_data of which the text of a field, the
\* _SourceSheet tag included, holds a QC marker (CCV, MB, Blank, Check) in any
\* letter case is not in the frame after the QC filter nor in the cleaned
\* output, and is never in the master file.
C11_QCRowsExcluded ==
    /\ stage \in {"qc", "key", "raised", "cleaned", "merged"} =>
          /\ \A i \in 1..Len(frame.rows) : ~RowHasMarker(frame.rows[i])
          /\ Len(frame.rows) <= Cardinality(RowsWithoutMarker)
    /\ \A i \in 1..Len(masterFile.rows) : ~RowHasMarker(masterFile.rows[i])

\* a frame with a row that holds a marker in another letter case than the
\* pattern, of which another row reached the master file
C11_Witness ==
    /\ stage = "merged"
    /\ masterFile.rows # <<>>
    /\ \E i \in 1..Len(extracted_data.rows) :
          /\ RowHasMarker(extracted_data.rows[i])
          /\ \A c \in DOMAIN extracted_data.rows[i] : \A p \in 1..Len(qc_patterns) :
                ~Contains(AsStr(extracted_data.rows[i][c]), qc_patterns[p])

\* the required key fields that are columns of df
KeyColumnsOf(d) == {c \in Range(d.cols) : c = "Sample ID" \/ c = "Result"}

\* C12: every required key field (Sample ID, Result) that is a column of the
\* row set is enforced: no row of the frame after the key-field step, and no
\* row of the cleaned output, has a null value in such a column; and when no
\* required key field is a column, the key-field step drops no row.
C12_KeyFieldsEnforced ==
    /\ stage \in {"key", "raised", "cleaned", "merged"} =>
          \A i \in 1..Len(frame.rows) : \A c \in KeyColumnsOf(frame) :
             frame.rows[i][c].k # "null"
    /\ (stage \in {"key", "cleaned", "merged"} /\ KeyColumnsOf(steps[4]) = {}) =>
          Len(steps[4].rows) = Len(steps[3].rows)

\* sub is a subsequence of full: its elements are elements of full, in the
\* order of full
RECURSIVE IsSubsequence(_, _)
IsSubsequence(sub, full) ==
    IF sub = <<>> THEN TRUE
    ELSE IF full = <<>> THEN FALSE
    ELSE IF Head(sub) = Head(full) THEN IsSubsequence(Tail(sub), Tail(full))
    ELSE IsSubsequence(sub, Tail(full))

\* row out is row in after the trim of its text: every text cell of in is in
\* out, at the same column, without the blanks around it
TrimmedRow(in, out) ==
    /\ DOMAIN out = DOMAIN in
    /\ \A c \in DOMAIN in : in[c].k = "str" => out[c] = Str(Strip(in[c].s))

\* C13: in clean_and_filter_data the number of rows never grows from a step
\* to the next (input, blank-row removal, QC filter, key-field filter), the
\* trim keeps the number of rows, the rows after each filter are a subsequence
\* of the rows before it, and the rows of the output are, in the same order,
\* the rows left by the key-field filter with their text trimmed.
C13_RowsOnlyFilteredInOrder ==
    /\ \A k \in 1..(Len(steps) - 1) : Len(steps[k + 1].rows) <= Len(steps[k].rows)
    /\ \A k \in 1..(Len(steps) - 1) :
          k <= 3 => IsSubsequence(steps[k + 1].rows, steps[k].rows)
    /\ Len(steps) = 5 =>
          /\ Len(steps[5].rows) = Len(steps[4].rows)
          /\ \A i \in 1..Len(steps[5].rows) :
                TrimmedRow(steps[4].rows[i], steps[5].rows[i])
    /\ stage \in {"cleaned", "merged"} =>
          /\ Len(steps) = 5
          /\ steps[1] = extracted_data
          /\ frame = steps[5]
          /\ frame = clean_and_filter_data(extracted_data).df
    /\ stage = "raised" => clean_and_filter_data(extracted_data).raised

\* a cleaning that dropped a row and kept two different rows, of which one
\* had blanks around its text
C13_Witness ==
    /\ stage = "cleaned"
    /\ Len(steps[1].rows) > Len(steps[5].rows)
    /\ Len(steps[5].rows) >= 2
    /\ steps[5].rows[1] # steps[5].rows[2]
    /\ steps[5] # steps[4]

\* row r comes from a row of a source table of which every cell is null: all
\* it holds is its _SourceSheet tag
IsBlankSourceRow(r) == \A c \in DOMAIN r \ {SourceSheet} : r[c].k = "null"

\* C14: a row of a source table of which every cell is null is not among the
\* rows that the filters of clean_and_filter_data leave (the rows of the
\* cleaned output, which the trim takes one for one), whether the file has a
\* required key column or not, and is not in the master file.
C14_BlankRowsRemoved ==
    /\ Len(steps) >= 4 => \A i \in 1..Len(steps[4].rows) :
                             ~IsBlankSourceRow(steps[4].rows[i])
    /\ stage = "merged" /\ steps[5] = steps[4] =>
          \A i \in 1..Len(masterFile.rows) : ~IsBlankSourceRow(masterFile.rows[i])

(***************************************************************************)
(* Properties of run_etl, continued.                                       *)
(***************************************************************************)
\* the rows of old are the first rows of new, cell for cell (new may have
\* more columns)
RowsKept(old, new) ==
    /\ Len(old.rows) <= Len(new.rows)
    /\ \A i \in 1..Len(old.rows) : \A c \in DOMAIN old.rows[i] :
          c \in DOMAIN new.rows[i] /\ new.rows[i][c] = old.rows[i][c]

\* C15: when a run has ended, with the master file written, with nothing to
\* append or with a failure at the write step, the rows that were in the
\* master file when the run started are its first rows, in the same order;
\* and when there was no master file, the rows written are the accepted new rows.
C15_MasterAppendOnly ==
    pc = "done" =>
        /\ RowsKept(run.startMaster, masterFile)
        /\ (run.wrote /\ run.startMaster.state = "absent") =>
               masterFile = ToExcel(data_to_append)

\* the files of the traversal that the loop has gone through
Handled == {all_excel_files[i] : i \in 1..(idx - 1)}

\* C16: a run that finds the ledger file absent or not parseable goes on with
\* an empty ledger: every file of the traversal whose timestamp it gets is
\* classified New and its read is attempted, and when the run ends with the
\* save of the ledger, the ledger file is complete and holds what the run
\* recorded.
C16_UnreadableLedgerMeansFullReprocessing ==
    (/\ pc \in {"loop", "save", "dump", "done"}
     /\ run.outcome \notin {"none", "no_connection"}
     /\ run.startLedger.state # "complete") =>
        /\ processed_files_log = NoLedger
        /\ \A f \in Handled : f \in run.tsFailed \/ run.cls[f] = "New"
        /\ \A f \in AllFiles : run.cls[f] # "none" =>
              run.cls[f] = "New" /\ f \in run.read
        /\ (pc = "done" /\ run.outcome = "saved") =>
              /\ ledgerFile.state = "complete"
              /\ ledgerFile.data = updated_processed_files_log
              /\ \A f \in run.took : Entry(DiskLedger, f) = CurStr(f)

\* a run that found the ledger file truncated, processed a file as New whose
\* rows were in the master file already, and saved a ledger with the file
C16_Witness ==
    /\ pc = "done"
    /\ run.outcome = "saved"
    /\ run.startLedger.state = "truncated"
    /\ run.startMaster.rows # <<>>
    /\ \E f \in DataFiles : run.cls[f] = "New" /\ f \in run.took /\ f \in DOMAIN DiskLedger

\* the name of a folder that the walk skips
IsReservedName(name) == name[1] = "_" \/ name = <<"F", "o", "r", "m", "s">>

\* the subfolders of the root folder that the walk lists without failure
ListedSubfolders(fails) ==
    {Tree[RootFolder].folders[k].url : k \in
       {j \in 1..Len(Tree[RootFolder].folders) :
          /\ ~IsReservedName(Tree[RootFolder].folders[j].name)
          /\ Tree[RootFolder].folders[j].url \notin fails}}

\* the tabular files of folder p
TabularFilesOf(p) ==
    {Tree[p].files[k].url : k \in
       {j \in 1..Len(Tree[p].files) :
          \E ext \in {<<Dot, "x", "l", "s", "x">>, <<Dot, "x", "l", "s">>} :
             EndsWith(Lower(Tree[p].files[j].name), ext)}}

\* C17: when the listing of a subfolder fails, the walk is not aborted: the
\* traversal holds the tabular files of the parent folder and of every other
\* subfolder that is not reserved, and no file of the subfolder that failed
\* nor of a reserved folder.
C17_WalkIsolatesFailures ==
    (/\ pc \in {"loop", "save", "dump", "done"}
     /\ run.outcome \notin {"none", "no_connection"}
     /\ RootFolder \notin run.listFails) =>
        Range(all_excel_files) =
            TabularFilesOf(RootFolder)
            \cup UNION {TabularFilesOf(p) : p \in ListedSubfolders(run.listFails)}

\* a walk in which the listing of a subfolder failed and that returned the file
\* of the parent folder and the file of a subfolder listed after it
C17_Witness ==
    /\ pc = "loop"
    /\ run.listFails = {"/Documents/Lab/tmp"}
    /\ Range(all_excel_files) = {FileA, FileB}

(***************************************************************************)
(* Properties of the pipeline of one file, continued.                      *)
(***************************************************************************)
\* the position in the workbook of the first sheet whose name holds the target
\* name in any letter case; 0 when there is none
FirstSheetFor(target) ==
    LET fits(i) == Contains(Lower(file_content[i].name), Lower(target))
    IN  IF \E i \in 1..Len(file_content) : fits(i)
        THEN CHOOSE i \in 1..Len(file_content) :
                fits(i) /\ \A j \in 1..(i - 1) : ~fits(j)
        ELSE 0

\* the rows that target gives: those of its sheet when it has one whose parse
\* does not fail, each with the name of the sheet and the cells under the
\* sheet's header
RowsFor(target) ==
    LET m == FirstSheetFor(target)
    IN  IF m = 0 THEN <<>>
        ELSE IF file_content[m].name \in parse_fails THEN <<>>
        ELSE [i \in 1..Len(file_content[m].rows) |->
                [tag |-> file_content[m].name, sheet |-> m, at |-> i]]

\* row r of the extracted frame is the row that src names
IsSourceRow(r, src) ==
    /\ r[SourceSheet] = Str(src.tag)
    /\ \A j \in 1..Len(file_content[src.sheet].cols) :
          r[file_content[src.sheet].cols[j]] = file_content[src.sheet].rows[src.at][j]

\* C18: process_excel_file returns, for the targets Batch Sheet and then
\* Product Info, the rows of the first sheet whose name holds the target in
\* any letter case, in the order of the sheet, each tagged in _SourceSheet with
\* the name of that sheet; a target without sheet or whose parse fails gives no
\* row and leaves the rows of the other target.
C18_ExtractionOrderAndTags ==
    stage \notin {"off", "read", "undecoded"} =>
        LET expected == RowsFor(BatchSheet) \o RowsFor(ProductInfo)
        IN  /\ Len(extracted_data.rows) = Len(expected)
            /\ \A i \in 1..Len(expected) :
                  IsSourceRow(extracted_data.rows[i], expected[i])

\* a workbook whose Product Info sheet comes before its Batch Sheet sheet gave
\* the rows of the Batch Sheet sheet first, then those of Product Info
C18_Witness ==
    /\ stage = "extracted"
    /\ parse_fails = {}
    /\ FirstSheetFor(ProductInfo) = 1
    /\ FirstSheetFor(BatchSheet) = 2
    /\ file_content[1].rows # <<>>
    /\ file_content[2].rows # <<>>
    /\ extracted_data.rows[1][SourceSheet] = Str(file_content[2].name)
    /\ extracted_data.rows[Len(extracted_data.rows)][SourceSheet]
          = Str(file_content[1].name)

\* the sheets of the workbook that were matched and parsed
ParsedSheets ==
    {m \in {FirstSheetFor(BatchSheet), FirstSheetFor(ProductInfo)} :
       m # 0 /\ file_content[m].name \notin parse_fails}

\* sheet t has none of the columns that are required key columns, and sheet s,
\* matched and parsed with it, has one
LacksKeyColumnOf(t, s) ==
    /\ s # t
    /\ \E c \in {"Sample ID", "Result"} :
          c \in Range(file_content[s].cols) /\ c \notin Range(file_content[t].cols)

\* C19: when a file has two matched tables and a required key column is in one
\* of them only, no row of the other table is left by the key-field filter,
\* none is in the cleaned output and none reaches the master file.
C19_RowsOfTableWithoutKeyColumnDropped ==
    \A s \in ParsedSheets : \A t \in ParsedSheets :
       LacksKeyColumnOf(t, s) =>
          /\ stage \in {"key", "raised", "cleaned", "merged"} =>
                \A i \in 1..Len(frame.rows) :
                   frame.rows[i][SourceSheet] # Str(file_content[t].name)
          /\ \A i \in 1..Len(masterFile.rows) :
                masterFile.rows[i][SourceSheet] # Str(file_content[t].name)

\* a file of two matched tables, of which the one without key column had a row
\* with values and no QC marker, and the other gave the rows of the master file
C19_Witness ==
    /\ stage = "merged"
    /\ masterFile.rows # <<>>
    /\ \E s \in ParsedSheets : \E t \in ParsedSheets :
          /\ LacksKeyColumnOf(t, s)
          /\ \E i \in 1..Len(extracted_data.rows) :
                /\ extracted_data.rows[i][SourceSheet] = Str(file_content[t].name)
                /\ ~IsBlankSourceRow(extracted_data.rows[i])
                /\ ~RowHasMarker(extracted_data.rows[i])

(***************************************************************************)
(* Properties of run_etl across an interrupted run.                        *)
(***************************************************************************)
\* C20: when a run was interrupted after it wrote the master file and before
\* the ledger was saved, the run that follows, with no remote change in
\* between, writes no row of a file of which the interrupted run wrote the
\* rows.
C20_NoSecondAppendAfterInterruption ==
    run.wrote => run.redo \cap run.took = {}

====
